---- MODULE Spec2Model ----
(***************************************************************************)
(* Notification relay: the FastAPI service of src/main.py (broker          *)
(* connection handling, publish paths, health probe) and the queue         *)
(* consumer of src/consumer.py.                                            *)
(*                                                                         *)
(* The service runs on one asyncio event loop: a coroutine runs without    *)
(* interruption up to its next await, so every action below is the code    *)
(* between two awaits of one request handler.                              *)
(***************************************************************************)
EXTENDS Integers, Sequences, FiniteSets, TLC

\* ---------------------------------------------------------------- bounds
MaxConns == 2        \* transport connections the broker accepts in one run
MaxRequests == 2     \* HTTP requests served in one run
MaxMsgs == 2         \* messages put on the queue by producers in one run
MaxLosses == 1       \* losses of the consumer's channel in one run

\* ------------------------------------------------------ program constants
max_retries == 5     \* main.py: connect_rabbitmq
PrefetchCount == 1   \* consumer.py: set_qos(prefetch_count=1)

Tasks == {"t1", "t2"}            \* concurrently running request handlers
None == 0                        \* Python None for the connection / channel handles
ConnIds == 1..MaxConns

VARIABLES
    rabbitmq_connection,   \* main.py global: None or the id of a connection object
    rabbitmq_channel,      \* main.py global: None or the id of the connection the channel was opened on
    redis_client,          \* main.py global: FALSE (None) or TRUE (a client object)
    connOpen,              \* connection objects whose transport is open (not is_closed)
    nconn,                 \* connection objects created so far
    phase,                 \* "startup", "serving" or "shutdown"
    task,                  \* per handler: its position and locals
    nreq,                  \* requests started so far
    nitems,                \* records inserted in the collection
    cached,                \* item ids held by the cache
    queue,                 \* the broker's "notifications" queue: messages ready for delivery
    nmsg,                  \* messages published so far (gives message identities)
    cpc,                   \* consumer.py main(): position
    prefetch,              \* QoS of the consumer's channel (0: unlimited)
    chanOpen,              \* the consumer's channel is usable
    inflight,              \* deliveries handed to the consumer and not settled
    acked,                 \* ids of the messages removed by an ack
    failed,                \* ids of the messages whose latest dispatch ended in Failure
    last,                  \* what the latest dispatch of process_message did
    nlost,                 \* losses of the consumer's channel so far
    mgr_client,            \* RedisManager.redis_client: FALSE (None) or TRUE (a client object)
    kv,                    \* the Redis server: the string value and expiry time of each key
    ctr,                   \* the Redis server: the text of each counter key ("": no such key)
    now,                   \* the Redis server's clock, in seconds
    call,                  \* the latest call of a cache operation and what it returned
    wrote,                 \* per key: the latest write that was not deleted since
    incrs                  \* the increments applied so far: how many, and their sum

svcVars == <<rabbitmq_connection, rabbitmq_channel, redis_client, connOpen, nconn,
             phase, task, nreq, nitems, cached>>
consVars == <<cpc, prefetch, chanOpen, inflight, acked, failed, last, nlost>>
cacheVars == <<mgr_client, kv, ctr, now, call, wrote, incrs>>
vars == <<svcVars, queue, nmsg, consVars, cacheVars>>

\* -------------------------------------------------------------- messages
\* The pydantic model NotificationMessage (main.py 60-63): message and
\* item_id are str, timestamp is a datetime; sent tells an event from NoEvent.
NotificationMessage(message, item_id, timestamp) ==
    [sent |-> TRUE, message |-> message, item_id |-> item_id, timestamp |-> timestamp]

Messages == {"hello"}

\* datetime.utcnow(): a naive datetime, whole seconds and microseconds.
Timestamps == {[s |-> 0, us |-> 0], [s |-> 0, us |-> 1]}

\* The same datetimes when the fraction of the second is dropped.
IsoFormat_Seconds(ts) == "1970-01-01T00:00:00"

\* pydantic's JSON encoding of a datetime is datetime.isoformat(): the
\* fraction is written only when the microseconds are not 0.
IsoFormat(ts) ==
    IF ts.us = 0 THEN "1970-01-01T00:00:00" ELSE "1970-01-01T00:00:00.000001"

\* The datetime an ISO-8601 string denotes.
ParseIso(str) ==
    CASE str = "1970-01-01T00:00:00" -> [s |-> 0, us |-> 0]
      [] str = "1970-01-01T00:00:00.000001" -> [s |-> 0, us |-> 1]

\* notification.json().encode() (301, 311; 166, 173): the UTF-8 bytes of a
\* JSON object with the three fields, the timestamp as an ISO-8601 string.
Serialize(ev) ==
    [enc |-> "utf8", json |-> "object",
     message |-> ev.message, item_id |-> ev.item_id, timestamp |-> IsoFormat(ev.timestamp)]

\* str(result.inserted_id) (153): the id of the record as text.
ItemId(n) == ToString(n)

\* The message was not made from a NotificationMessage.
NoEvent == [sent |-> FALSE, message |-> "", item_id |-> "", timestamp |-> [s |-> 0, us |-> 0]]

\* Bodies other producers may put on the queue: bytes that are not UTF-8,
\* text that is not JSON, JSON that is not an object.
ForeignBodies ==
    { [enc |-> e, json |-> j, message |-> "", item_id |-> "", timestamp |-> ""] :
        <<e, j>> \in {<<"invalid", "invalid">>, <<"utf8", "invalid">>, <<"utf8", "array">>} }

\* ------------------------------------------------------------ task records
Idle ==
    [kind |-> "none", pc |-> "idle", attempt |-> 0, ret |-> "none", conn |-> None,
     ch |-> None, resp |-> "none", cres |-> "none", ncalls |-> 0, found |-> "none",
     skipped |-> FALSE, mongo |-> "none", redis |-> "none", rabbit |-> "none",
     status |-> "none", item |-> 0, msg |-> "", delays |-> 0]

\* json.loads(message.body.decode()) (13-14) and the three .get calls
\* (18-20): the fields process_message reads from the parsed object.
Loads(body) ==
    [message |-> body.message, item_id |-> body.item_id, timestamp |-> body.timestamp]

ConnectPcs == {"c_open", "c_chan", "c_declare", "c_sleep"}
InConnect(t) == task[t].pc \in ConnectPcs

\* What health_check tests before it reports "connected" (main.py 236-238).
ConnectedState ==
    /\ rabbitmq_connection # None
    /\ rabbitmq_connection \in connOpen
    /\ rabbitmq_channel # None

\* ==================================================================
\* redis_utils.py: the values RedisManager takes, stores and returns
\* ==================================================================

SecondsPerHour == 3600       \* redis_utils.py: expiry_seconds = expiry_hours * 3600
DefaultExpiryHours == 24     \* redis_utils.py: expiry_hours: int = 24
MaxTicks == 2                \* hours the clock runs
MaxIncrs == 2                \* increments applied to a counter

\* Python values, tagged with their type.
PyNone == [t |-> "None", v |-> 0]
PyBool(b) == [t |-> "bool", v |-> b]
PyInt(n) == [t |-> "int", v |-> n]
PyStr(str) == [t |-> "str", v |-> str]
PyDatetime(ts) == [t |-> "datetime", v |-> ts]
PyDict(d) == [t |-> "dict", v |-> d]
PyList(keys) == [t |-> "list", v |-> keys]

\* str(x) of a value json.dumps cannot encode: a datetime prints with a
\* space between date and time.
StrOf(x) ==
    IF x.t = "datetime"
    THEN IF x.v.us = 0 THEN "1970-01-01 00:00:00" ELSE "1970-01-01 00:00:00.000001"
    ELSE x.v

\* item_data / session_data: a dict of a name and a creation time, given as
\* an ISO string (as in main(), 176-181) or as a datetime.
ItemData ==
    { [name |-> PyStr("Test Item"), created_at |-> PyStr("1970-01-01T00:00:00")],
      [name |-> PyStr("Other Item"), created_at |-> PyStr("1970-01-01T00:00:00")],
      [name |-> PyStr("Test Item"), created_at |-> PyDatetime([s |-> 0, us |-> 0])] }
SessionData == { [name |-> PyStr("user_123"), created_at |-> PyStr("1970-01-01T00:00:00")] }

\* json.dumps(value, default=str): a str becomes a JSON string, and a value
\* JSON has no type for is passed to str() and becomes a JSON string too.
JsonValue(x) ==
    IF x.t = "str" THEN [t |-> "string", v |-> x.v] ELSE [t |-> "string", v |-> StrOf(x)]
json_dumps(d) == [name |-> JsonValue(d.name), created_at |-> JsonValue(d.created_at)]

\* json.loads(text): a JSON string becomes a str.
json_loads(text) == [name |-> PyStr(text.name.v), created_at |-> PyStr(text.created_at.v)]

\* f"item:{item_id}", f"session:{session_id}", f"counter:{counter_name}".
ItemIds == {"test_123"}
SessionIds == {"session_abc"}
CounterNames == {"items_created"}
ItemKey(item_id) == <<"item", item_id>>
SessionKey(session_id) == <<"session", session_id>>
CounterKey(counter_name) == <<"counter", counter_name>>
Keys == {ItemKey(i) : i \in ItemIds} \cup {SessionKey(i) : i \in SessionIds}

\* expiry_hours and the increments the callers pass.
Hours == {0, 1, DefaultExpiryHours}
Amounts == {-1, 1, 5}
Callers == {"a", "b"}

\* A key the server does not hold, and a key nothing was written to.
Absent == [set |-> FALSE, val |-> json_dumps(CHOOSE d \in SessionData : TRUE), exp |-> 0]
NotWritten ==
    [some |-> FALSE, val |-> CHOOSE d \in SessionData : TRUE, at |-> 0, hours |-> 0]

\* No cache operation was called yet.
NoCall ==
    [op |-> "none", caller |-> "a", key |-> <<"none", "none">>, mode |-> "none",
     out |-> PyNone, raised |-> FALSE, tick |-> 0]

Init ==
    /\ rabbitmq_connection = None
    /\ rabbitmq_channel = None
    /\ redis_client = FALSE
    /\ connOpen = {}
    /\ nconn = 0
    /\ phase = "startup"
    /\ task = [t \in Tasks |-> IF t = "t1"
                               THEN [Idle EXCEPT !.kind = "startup", !.pc = "s_redis"]
                               ELSE Idle]
    /\ nreq = 0
    /\ nitems = 0
    /\ cached = {}
    /\ queue = <<>>
    /\ nmsg = 0
    /\ cpc = "start"
    /\ prefetch = 0
    /\ chanOpen = FALSE
    /\ inflight = <<>>
    /\ acked = {}
    /\ failed = {}
    /\ last = [msg |-> [id |-> 0, body |-> Serialize(NoEvent), ev |-> NoEvent],
               seen |-> Loads(Serialize(NoEvent)),
               handled |-> FALSE, tick |-> 0, acks |-> 0, nacks |-> 0,
               outcome |-> "none", escaped |-> FALSE]
    /\ nlost = 0
    /\ mgr_client = FALSE
    /\ kv = [k \in Keys |-> Absent]
    /\ ctr = [c \in CounterNames |-> ""]
    /\ now = 0
    /\ call = NoCall
    /\ wrote = [k \in Keys |-> NotWritten]
    /\ incrs = [n |-> 0, sum |-> 0]

\* ==================================================================
\* main.py: connect_rabbitmq (77-103)
\* ==================================================================

\* A handler calls connect_rabbitmq(); ret names the call site.
EnterConnect(rec, ret) ==
    [rec EXCEPT !.pc = "c_open", !.attempt = 0, !.ret = ret, !.conn = None,
                !.ncalls = @ + 1, !.delays = 0]

\* The code that runs when connect_rabbitmq() returns ok to its call site,
\* up to the caller's next await; the locals of connect_rabbitmq() are gone.
\*   startup_event (125): the result is dropped, startup is over
\*   send_notification (295-312): 503, or the publish call on the global channel
\*   get_queue_status (322-327): 503, or get_queue on the global channel
\*   health_check (247-252): "reconnected" / "disconnected"
\*   health_check (258): the result is dropped
AfterConnect(rec, ok) ==
    LET r == [rec EXCEPT !.cres = IF ok THEN "ok" ELSE "fail", !.attempt = 0,
                         !.conn = None] IN
    CASE rec.ret = "startup" -> [r EXCEPT !.pc = "done", !.resp = "started"]
      [] rec.ret = "notify" ->
            IF ok THEN [r EXCEPT !.pc = "publish", !.ch = rabbitmq_channel]
                  ELSE [r EXCEPT !.pc = "done", !.resp = "503 RabbitMQ not available"]
      [] rec.ret = "queue" ->
            IF ok THEN [r EXCEPT !.pc = "getqueue", !.ch = rabbitmq_channel]
                  ELSE [r EXCEPT !.pc = "done", !.resp = "503 RabbitMQ not available"]
      [] rec.ret = "health247" ->
            IF ok THEN [r EXCEPT !.pc = "done", !.rabbit = "reconnected", !.resp = "200"]
                  ELSE [r EXCEPT !.pc = "done", !.rabbit = "disconnected",
                                 !.status = "degraded", !.resp = "200"]
      [] OTHER -> [r EXCEPT !.pc = "done", !.resp = "200"]

\* The except branch (97-103): sleep before the next attempt, or give up
\* after the last one and return False.
AttemptFailed(rec) ==
    IF rec.attempt < max_retries - 1
    THEN [rec EXCEPT !.pc = "c_sleep"]
    ELSE AfterConnect(rec, FALSE)

\* Requests are served once startup_event has returned.
PhaseAfter(old, new) ==
    IF old.ret = "startup" /\ new.pc \notin ConnectPcs THEN "serving" ELSE phase

\* await aio_pika.connect_robust(...) (86-90): a new connection object is
\* bound to the global, or the call raises.
ConnectOpen(t) ==
    /\ task[t].pc = "c_open"
    /\ \/ /\ nconn < MaxConns
          /\ nconn' = nconn + 1
          /\ connOpen' = connOpen \cup {nconn + 1}
          /\ rabbitmq_connection' = nconn + 1
          /\ task' = [task EXCEPT ![t] = [@ EXCEPT !.pc = "c_chan", !.conn = nconn + 1]]
          /\ phase' = phase
       \/ /\ task' = [task EXCEPT ![t] = AttemptFailed(@)]
          /\ phase' = PhaseAfter(task[t], task'[t])
          /\ UNCHANGED <<nconn, connOpen, rabbitmq_connection>>
    /\ UNCHANGED <<rabbitmq_channel, redis_client, nreq, nitems, cached, queue, nmsg, consVars, cacheVars>>

\* await rabbitmq_connection.channel() (91): the channel of the connection
\* this attempt opened is bound to the global, or the call raises.
ConnectChannel(t) ==
    /\ task[t].pc = "c_chan"
    /\ \/ /\ task[t].conn \in connOpen
          /\ rabbitmq_channel' = task[t].conn
          /\ task' = [task EXCEPT ![t] = [@ EXCEPT !.pc = "c_declare"]]
          /\ phase' = phase
       \/ /\ task' = [task EXCEPT ![t] = AttemptFailed(@)]
          /\ phase' = PhaseAfter(task[t], task'[t])
          /\ UNCHANGED rabbitmq_channel
    /\ UNCHANGED <<rabbitmq_connection, redis_client, connOpen, nconn, nreq, nitems,
                   cached, queue, nmsg, consVars, cacheVars>>

\* await rabbitmq_channel.declare_queue("notifications", durable=True) (94-96):
\* return True, or the call raises.
ConnectDeclare(t) ==
    /\ task[t].pc = "c_declare"
    /\ \/ /\ task[t].conn \in connOpen
          /\ task' = [task EXCEPT ![t] = AfterConnect(@, TRUE)]
       \/ /\ task' = [task EXCEPT ![t] = AttemptFailed(@)]
    /\ phase' = PhaseAfter(task[t], task'[t])
    /\ UNCHANGED <<rabbitmq_connection, rabbitmq_channel, redis_client, connOpen, nconn,
                   nreq, nitems, cached, queue, nmsg, consVars, cacheVars>>

\* await asyncio.sleep(retry_delay) (100) ends: the loop's next attempt.
\* delays counts the sleeps of this call of connect_rabbitmq().
ConnectSleep(t) ==
    /\ task[t].pc = "c_sleep"
    /\ task' = [task EXCEPT ![t] = [@ EXCEPT !.pc = "c_open", !.attempt = @ + 1,
                                             !.delays = @ + 1]]
    /\ UNCHANGED <<rabbitmq_connection, rabbitmq_channel, redis_client, connOpen, nconn,
                   phase, nreq, nitems, cached, queue, nmsg, consVars, cacheVars>>

\* The transport of an open connection is lost or closed by the broker:
\* is_closed becomes true for that connection object.
ConnectionLost(c) ==
    /\ c \in connOpen
    /\ connOpen' = connOpen \ {c}
    /\ UNCHANGED <<rabbitmq_connection, rabbitmq_channel, redis_client, nconn, phase,
                   task, nreq, nitems, cached, queue, nmsg, consVars, cacheVars>>

\* ==================================================================
\* main.py: startup_event (105-125), shutdown_event (127-137)
\* ==================================================================

\* redis.from_url(REDIS_URL) binds the client (119's ping may fail, the
\* client stays bound) or raises and leaves redis_client None; then
\* connect_rabbitmq() is called.
StartupRedis(t) ==
    /\ task[t].pc = "s_redis"
    /\ \E bound \in BOOLEAN : redis_client' = bound
    /\ task' = [task EXCEPT ![t] = EnterConnect(@, "startup")]
    /\ UNCHANGED <<rabbitmq_connection, rabbitmq_channel, connOpen, nconn, phase,
                   nreq, nitems, cached, queue, nmsg, consVars, cacheVars>>

\* shutdown_event: closes the connection the global refers to.
Shutdown ==
    /\ phase = "serving"
    /\ \A t \in Tasks : task[t].pc = "idle"
    /\ phase' = "shutdown"
    /\ connOpen' = connOpen \ {rabbitmq_connection}
    /\ UNCHANGED <<rabbitmq_connection, rabbitmq_channel, redis_client, nconn,
                   task, nreq, nitems, cached, queue, nmsg, consVars, cacheVars>>

\* A handler has returned its response: the slot is free for the next request.
Finish(t) ==
    /\ task[t].pc = "done"
    /\ task' = [task EXCEPT ![t] = Idle]
    /\ UNCHANGED <<rabbitmq_connection, rabbitmq_channel, redis_client, connOpen, nconn,
                   phase, nreq, nitems, cached, queue, nmsg, consVars, cacheVars>>

\* A request arrives for a free slot.
Accept(t) ==
    /\ phase = "serving"
    /\ task[t].pc = "idle"
    /\ nreq < MaxRequests
    /\ nreq' = nreq + 1

\* channel.default_exchange.publish(Message(body, PERSISTENT), routing_key=
\* "notifications") on channel ch: the message is queued when the channel's
\* transport is open, and the call raises otherwise.
PublishOk(ch) == ch \in connOpen
\* ev remembers the event the body was made from.
Published(body, ev) == Append(queue, [id |-> nmsg + 1, body |-> body, ev |-> ev])

\* ==================================================================
\* main.py: send_notification (291-316)
\* ==================================================================

\* 293-306: no channel: connect_rabbitmq(); otherwise the publish call is
\* made on the cached channel.
StartNotify(t) ==
    /\ Accept(t)
    /\ \E m \in Messages :
         LET r == [Idle EXCEPT !.kind = "notify", !.msg = m] IN
         task' = [task EXCEPT ![t] =
                    IF rabbitmq_channel = None
                    THEN EnterConnect(r, "notify")
                    ELSE [r EXCEPT !.pc = "publish", !.ch = rabbitmq_channel]]
    /\ UNCHANGED <<rabbitmq_connection, rabbitmq_channel, redis_client, connOpen, nconn,
                   phase, nitems, cached, queue, nmsg, consVars, cacheVars>>

\* 306-316: the publish ends: "notification sent", or HTTP 500.
NotifyPublish(t) ==
    /\ task[t].pc = "publish"
    /\ \E ts \in Timestamps :
         IF PublishOk(task[t].ch)
         THEN /\ LET ev == NotificationMessage(task[t].msg, "manual", ts) IN
                 queue' = Published(Serialize(ev), ev)
              /\ nmsg' = nmsg + 1
              /\ task' = [task EXCEPT ![t] = [@ EXCEPT !.pc = "done",
                                                       !.resp = "200 notification sent"]]
         ELSE /\ task' = [task EXCEPT ![t] = [@ EXCEPT !.pc = "done",
                                                       !.resp = "500 RabbitMQ error"]]
              /\ UNCHANGED <<queue, nmsg>>
    /\ UNCHANGED <<rabbitmq_connection, rabbitmq_channel, redis_client, connOpen, nconn,
                   phase, nreq, nitems, cached, consVars, cacheVars>>

\* ==================================================================
\* main.py: get_queue_status (318-334)
\* ==================================================================

StartQueueStatus(t) ==
    /\ Accept(t)
    /\ LET r == [Idle EXCEPT !.kind = "queue"] IN
       task' = [task EXCEPT ![t] =
                  IF rabbitmq_channel = None
                  THEN EnterConnect(r, "queue")
                  ELSE [r EXCEPT !.pc = "getqueue", !.ch = rabbitmq_channel]]
    /\ UNCHANGED <<rabbitmq_connection, rabbitmq_channel, redis_client, connOpen, nconn,
                   phase, nitems, cached, queue, nmsg, consVars, cacheVars>>

\* 327-334: get_queue("notifications") asks the broker: counts, or HTTP 500.
QueueStatusGet(t) ==
    /\ task[t].pc = "getqueue"
    /\ task' = [task EXCEPT ![t] =
                  [@ EXCEPT !.pc = "done",
                            !.resp = IF task[t].ch \in connOpen
                                     THEN "200 queue status" ELSE "500 RabbitMQ error"]]
    /\ UNCHANGED <<rabbitmq_connection, rabbitmq_channel, redis_client, connOpen, nconn,
                   phase, nreq, nitems, cached, queue, nmsg, consVars, cacheVars>>

\* ==================================================================
\* main.py: health_check (210-262)
\* ==================================================================

StartHealth(t) ==
    /\ Accept(t)
    /\ task' = [task EXCEPT ![t] = [Idle EXCEPT !.kind = "health", !.pc = "h_mongo",
                                                !.status = "healthy"]]
    /\ UNCHANGED <<rabbitmq_connection, rabbitmq_channel, redis_client, connOpen, nconn,
                   phase, nitems, cached, queue, nmsg, consVars, cacheVars>>

\* The broker check that does not count a missing channel against the status.
HealthRabbit_ChannelIgnored(rec) ==
    IF rabbitmq_connection # None /\ rabbitmq_connection \in connOpen
    THEN IF rabbitmq_channel # None
         THEN [rec EXCEPT !.pc = "h_getqueue", !.ch = rabbitmq_channel]
         ELSE [rec EXCEPT !.pc = "done", !.rabbit = "channel not available",
                          !.resp = "200"]
    ELSE EnterConnect(rec, "health247")

\* 235-252: the broker check, entered without an await after the cache check.
HealthRabbit(rec) ==
    LET r == [rec EXCEPT !.found = IF ConnectedState THEN "connected" ELSE "notconnected"] IN
    IF rabbitmq_connection # None /\ rabbitmq_connection \in connOpen
    THEN IF rabbitmq_channel # None
         THEN [r EXCEPT !.pc = "h_getqueue", !.ch = rabbitmq_channel]
         ELSE [r EXCEPT !.pc = "done", !.rabbit = "channel not available",
                        !.status = "degraded", !.resp = "200"]
    ELSE EnterConnect(r, "health247")

\* 215-232: the record store's ping ends; without a cache client the cache
\* is "not initialized" and the broker check follows at once.
HealthMongo(t) ==
    /\ task[t].pc = "h_mongo"
    /\ \E ok \in BOOLEAN :
         LET r == IF ok THEN [task[t] EXCEPT !.mongo = "connected"]
                        ELSE [task[t] EXCEPT !.mongo = "error", !.status = "degraded"] IN
         task' = [task EXCEPT ![t] =
                    IF redis_client
                    THEN [r EXCEPT !.pc = "h_redis"]
                    ELSE HealthRabbit([r EXCEPT !.redis = "not initialized",
                                                !.status = "degraded"])]
    /\ UNCHANGED <<rabbitmq_connection, rabbitmq_channel, redis_client, connOpen, nconn,
                   phase, nreq, nitems, cached, queue, nmsg, consVars, cacheVars>>

\* 224-229: the cache's ping ends, then the broker check.
HealthRedis(t) ==
    /\ task[t].pc = "h_redis"
    /\ \E ok \in BOOLEAN :
         task' = [task EXCEPT ![t] =
                    HealthRabbit(IF ok THEN [@ EXCEPT !.redis = "connected"]
                                       ELSE [@ EXCEPT !.redis = "error",
                                                      !.status = "degraded"])]
    /\ UNCHANGED <<rabbitmq_connection, rabbitmq_channel, redis_client, connOpen, nconn,
                   phase, nreq, nitems, cached, queue, nmsg, consVars, cacheVars>>

\* 239-240, 253-260: get_queue("notifications", ensure=False) ends. On a
\* channel whose transport is open it returns; on a channel whose transport
\* is closed it returns (no broker round trip is needed) or raises, and the
\* except branch reports the error and calls connect_rabbitmq().
HealthGetQueue(t) ==
    /\ task[t].pc = "h_getqueue"
    /\ \/ task' = [task EXCEPT ![t] = [@ EXCEPT !.pc = "done", !.rabbit = "connected",
                                                !.resp = "200"]]
       \/ /\ task[t].ch \notin connOpen
          /\ task' = [task EXCEPT ![t] =
                        EnterConnect([@ EXCEPT !.rabbit = "error", !.status = "degraded"],
                                     "health258")]
    /\ UNCHANGED <<rabbitmq_connection, rabbitmq_channel, redis_client, connOpen, nconn,
                   phase, nreq, nitems, cached, queue, nmsg, consVars, cacheVars>>

\* ==================================================================
\* main.py: create_item (144-191)
\* ==================================================================

StartCreate(t) ==
    /\ Accept(t)
    /\ task' = [task EXCEPT ![t] = [Idle EXCEPT !.kind = "create", !.pc = "insert"]]
    /\ UNCHANGED <<rabbitmq_connection, rabbitmq_channel, redis_client, connOpen, nconn,
                   phase, nitems, cached, queue, nmsg, consVars, cacheVars>>

\* 163-177: with a channel the publish call is made; without one the
\* notification is skipped and the handler goes on to read the record back.
CreateNotify(rec) ==
    IF rabbitmq_channel # None
    THEN [rec EXCEPT !.pc = "cpublish", !.ch = rabbitmq_channel]
    ELSE [rec EXCEPT !.pc = "find", !.skipped = TRUE]

\* 152-161: insert_one ends: the record is stored, or HTTP 500.
CreateInsert(t) ==
    /\ task[t].pc = "insert"
    /\ \/ /\ nitems' = nitems + 1
          /\ LET r == [task[t] EXCEPT !.item = nitems + 1] IN
             task' = [task EXCEPT ![t] =
                        IF redis_client THEN [r EXCEPT !.pc = "setex"] ELSE CreateNotify(r)]
       \/ /\ task' = [task EXCEPT ![t] = [@ EXCEPT !.pc = "done",
                                                   !.resp = "500 Failed to create item"]]
          /\ UNCHANGED nitems
    /\ UNCHANGED <<rabbitmq_connection, rabbitmq_channel, redis_client, connOpen, nconn,
                   phase, nreq, cached, queue, nmsg, consVars, cacheVars>>

\* 157-161: setex ends: the item is cached, or HTTP 500.
CreateSetex(t) ==
    /\ task[t].pc = "setex"
    /\ \/ /\ cached' = cached \cup {task[t].item}
          /\ task' = [task EXCEPT ![t] = CreateNotify(@)]
       \/ /\ task' = [task EXCEPT ![t] = [@ EXCEPT !.pc = "done",
                                                   !.resp = "500 Failed to create item"]]
          /\ UNCHANGED cached
    /\ UNCHANGED <<rabbitmq_connection, rabbitmq_channel, redis_client, connOpen, nconn,
                   phase, nreq, nitems, queue, nmsg, consVars, cacheVars>>

\* 171-177: the publish ends: queued, or HTTP 500.
CreatePublish(t) ==
    /\ task[t].pc = "cpublish"
    /\ \E ts \in Timestamps :
         IF PublishOk(task[t].ch)
         THEN /\ LET ev == NotificationMessage("New item created", ItemId(task[t].item), ts) IN
                 queue' = Published(Serialize(ev), ev)
              /\ nmsg' = nmsg + 1
              /\ task' = [task EXCEPT ![t] = [@ EXCEPT !.pc = "find"]]
         ELSE /\ task' = [task EXCEPT ![t] = [@ EXCEPT !.pc = "done",
                                                       !.resp = "500 Failed to create item"]]
              /\ UNCHANGED <<queue, nmsg>>
    /\ UNCHANGED <<rabbitmq_connection, rabbitmq_channel, redis_client, connOpen, nconn,
                   phase, nreq, nitems, cached, consVars, cacheVars>>

\* 180-191: find_one ends: the created item is returned, or HTTP 500.
CreateFind(t) ==
    /\ task[t].pc = "find"
    /\ \E ok \in BOOLEAN :
         task' = [task EXCEPT ![t] =
                    [@ EXCEPT !.pc = "done",
                              !.resp = IF ok THEN "200 item created"
                                             ELSE "500 Failed to create item"]]
    /\ UNCHANGED <<rabbitmq_connection, rabbitmq_channel, redis_client, connOpen, nconn,
                   phase, nreq, nitems, cached, queue, nmsg, consVars, cacheVars>>

\* ==================================================================
\* The service
\* ==================================================================
Next ==
    \/ \E t \in Tasks :
         \/ StartupRedis(t)
         \/ ConnectOpen(t) \/ ConnectChannel(t) \/ ConnectDeclare(t) \/ ConnectSleep(t)
         \/ StartNotify(t) \/ NotifyPublish(t)
         \/ StartQueueStatus(t) \/ QueueStatusGet(t)
         \/ StartHealth(t) \/ HealthMongo(t) \/ HealthRedis(t) \/ HealthGetQueue(t)
         \/ StartCreate(t) \/ CreateInsert(t) \/ CreateSetex(t) \/ CreatePublish(t)
         \/ CreateFind(t)
         \/ Finish(t)
    \/ \E c \in ConnIds : ConnectionLost(c)
    \/ Shutdown

Spec == Init /\ [][Next]_vars

\* The service when its requests arrive one after the other: one handler
\* runs at a time.
SeqTasks == {"t1"}

SeqNext ==
    \/ \E t \in SeqTasks :
         \/ StartupRedis(t)
         \/ ConnectOpen(t) \/ ConnectChannel(t) \/ ConnectDeclare(t) \/ ConnectSleep(t)
         \/ StartNotify(t) \/ NotifyPublish(t)
         \/ StartQueueStatus(t) \/ QueueStatusGet(t)
         \/ StartHealth(t) \/ HealthMongo(t) \/ HealthRedis(t) \/ HealthGetQueue(t)
         \/ StartCreate(t) \/ CreateInsert(t) \/ CreateSetex(t) \/ CreatePublish(t)
         \/ CreateFind(t)
         \/ Finish(t)
    \/ \E c \in ConnIds : ConnectionLost(c)
    \/ Shutdown

SeqSpec == Init /\ [][SeqNext]_vars

\* ==================================================================
\* consumer.py: process_message (9-36)
\* ==================================================================

\* message.body.decode() (13), json.loads(body) (14) and the .get calls on
\* the parsed value (18-20): each raises on a body it cannot take.
Decodes(body) == body.enc = "utf8"
Parses(body) == body.json # "invalid"
IsObject(body) == body.json = "object"
HandlerSucceeds(body) == Decodes(body) /\ Parses(body) /\ IsObject(body)

\* message.ack() / message.nack(requeue=True) reach the broker on the channel
\* the delivery came on; on a delivery whose channel is gone they raise.
AckReaches(d) == d.live

Requeued_Dropped(q, m) == q

\* nack(requeue=True): the broker puts the message back at its place at the
\* head of the queue.
Requeued(q, m) == <<m>> \o q

Settle(i) == SubSeq(inflight, 1, i - 1) \o SubSeq(inflight, i + 1, Len(inflight))

\* One dispatch of process_message on delivery i. There is no await before
\* the ack, so the whole handler is one step:
\*   try: decode, parse, print, await message.ack()
\*   except Exception: await message.nack(requeue=True)
\* An exception raised by the nack leaves process_message.
ProcessMessage(i) ==
    /\ i \in 1..Len(inflight)
    /\ LET d == inflight[i]
           handled == HandlerSucceeds(d.msg.body)
           reaches == AckReaches(d)
           did == [msg |-> d.msg,
                   seen |-> IF handled THEN Loads(d.msg.body) ELSE Loads(Serialize(NoEvent)),
                   handled |-> handled, tick |-> 1 - last.tick,
                   acks |-> 0, nacks |-> 0, outcome |-> "Failure", escaped |-> FALSE]
       IN
       /\ inflight' = Settle(i)
       /\ IF handled /\ reaches
          THEN \* 31: the ack removes the message for good
               /\ acked' = acked \cup {d.msg.id}
               /\ failed' = failed \ {d.msg.id}
               /\ last' = [did EXCEPT !.acks = 1, !.outcome = "Success"]
               /\ UNCHANGED queue
          ELSE IF reaches
          THEN \* 33-36: the handler raised, the nack requeues the message
               /\ queue' = Requeued(queue, d.msg)
               /\ failed' = failed \cup {d.msg.id}
               /\ last' = [did EXCEPT !.nacks = 1]
               /\ UNCHANGED acked
          ELSE \* the ack (or the handler) raised and the nack raises too
               /\ failed' = failed \cup {d.msg.id}
               /\ last' = [did EXCEPT !.escaped = TRUE]
               /\ UNCHANGED <<queue, acked>>
    /\ UNCHANGED <<svcVars, cacheVars, nmsg, cpc, prefetch, chanOpen, nlost>>

\* ==================================================================
\* consumer.py: main (38-68)
\* ==================================================================

\* The messages the broker holds as unacknowledged for this consumer.
Unacked == SelectSeq(inflight, LAMBDA d : d.live)
RECURSIVE Msgs(_)
Msgs(ds) == IF ds = <<>> THEN <<>> ELSE <<Head(ds).msg>> \o Msgs(Tail(ds))

\* except Exception / finally (64-68): the consumer ends; closing the
\* connection makes the broker requeue what was unacknowledged.
ConsumerStops ==
    /\ cpc' = "stopped"
    /\ chanOpen' = FALSE
    /\ queue' = Msgs(Unacked) \o queue
    /\ inflight' = <<>>
    /\ UNCHANGED <<svcVars, cacheVars, nmsg, prefetch, acked, failed, last, nlost>>

ConsumerStep(from, to) ==
    /\ cpc = from
    /\ cpc' = to
    /\ UNCHANGED <<svcVars, cacheVars, queue, nmsg, inflight, acked, failed, last, nlost>>

\* 44: connection = await aio_pika.connect_robust(RABBITMQ_URL)
ConsumerConnect ==
    \/ ConsumerStep("start", "connected") /\ UNCHANGED <<prefetch, chanOpen>>
    \/ cpc = "start" /\ ConsumerStops

\* 45: channel = await connection.channel()
ConsumerChannel ==
    \/ ConsumerStep("connected", "channel") /\ chanOpen' = TRUE /\ UNCHANGED prefetch
    \/ cpc = "connected" /\ ConsumerStops

ConsumerSetQos_Skipped ==
    ConsumerStep("channel", "qos") /\ UNCHANGED <<prefetch, chanOpen>>

\* 48: await channel.set_qos(prefetch_count=1)
ConsumerSetQos ==
    \/ ConsumerStep("channel", "qos") /\ prefetch' = PrefetchCount /\ UNCHANGED chanOpen
    \/ cpc = "channel" /\ ConsumerStops

\* 51: queue = await channel.declare_queue("notifications", durable=True)
ConsumerDeclare ==
    \/ ConsumerStep("qos", "declared") /\ UNCHANGED <<prefetch, chanOpen>>
    \/ cpc = "qos" /\ ConsumerStops

\* 57: await queue.consume(process_message)
ConsumerConsume ==
    \/ ConsumerStep("declared", "consuming") /\ UNCHANGED <<prefetch, chanOpen>>
    \/ cpc = "declared" /\ ConsumerStops

\* 60-68: the wait on asyncio.Future() is cancelled (CTRL+C); finally closes
\* the connection.
ConsumerInterrupt ==
    /\ cpc = "consuming"
    /\ ConsumerStops

\* The broker hands the message at the head of the queue to the subscribed
\* consumer, as far as the channel's prefetch allows.
Deliver ==
    /\ cpc = "consuming"
    /\ chanOpen
    /\ queue # <<>>
    /\ prefetch = 0 \/ Len(Unacked) < prefetch
    /\ inflight' = Append(inflight, [msg |-> Head(queue), live |-> TRUE])
    /\ queue' = Tail(queue)
    /\ UNCHANGED <<svcVars, cacheVars, nmsg, cpc, prefetch, chanOpen, acked, failed, last, nlost>>

\* The consumer's channel is lost: the broker requeues what was
\* unacknowledged; a delivery already received stays with the consumer
\* (kept), one still on the wire is gone.
ChannelLost ==
    /\ cpc = "consuming"
    /\ chanOpen
    /\ nlost < MaxLosses
    /\ nlost' = nlost + 1
    /\ chanOpen' = FALSE
    /\ queue' = Msgs(Unacked) \o queue
    /\ \E kept \in BOOLEAN :
         inflight' = IF kept
                     THEN [i \in 1..Len(inflight) |-> [inflight[i] EXCEPT !.live = FALSE]]
                     ELSE <<>>
    /\ UNCHANGED <<svcVars, cacheVars, nmsg, cpc, prefetch, acked, failed, last>>

\* connect_robust restores the channel, its QoS and its consumer once the
\* callbacks that were already scheduled have run.
ChannelRestored ==
    /\ cpc = "consuming"
    /\ ~chanOpen
    /\ inflight = <<>>
    /\ chanOpen' = TRUE
    /\ UNCHANGED <<svcVars, cacheVars, queue, nmsg, cpc, prefetch, inflight, acked, failed, last, nlost>>

\* A producer puts a message on the queue: the service's notification, or a
\* body of another producer.
Events ==
    {NotificationMessage(m, "manual", ts) : m \in Messages, ts \in Timestamps} \cup
    {NotificationMessage("New item created", ItemId(1), ts) : ts \in Timestamps}

ProducerPublish ==
    /\ nmsg < MaxMsgs
    /\ \/ \E body \in ForeignBodies : queue' = Published(body, NoEvent)
       \/ \E ev \in Events : queue' = Published(Serialize(ev), ev)
    /\ nmsg' = nmsg + 1
    /\ UNCHANGED <<svcVars, cacheVars, consVars, cacheVars>>

ConsumerNext ==
    \/ ConsumerConnect \/ ConsumerChannel \/ ConsumerSetQos \/ ConsumerDeclare
    \/ ConsumerConsume \/ ConsumerInterrupt
    \/ Deliver
    \/ \E i \in 1..MaxMsgs : ProcessMessage(i)
    \/ ChannelLost \/ ChannelRestored
    \/ ProducerPublish

ConsumerSpec == Init /\ [][ConsumerNext]_vars

\* The event loop runs a scheduled callback, the broker delivers what it may
\* deliver, and the robust connection comes back.
ConsumerFairSpec ==
    /\ ConsumerSpec
    /\ WF_vars(Deliver)
    /\ WF_vars(\E i \in 1..MaxMsgs : ProcessMessage(i))
    /\ WF_vars(ChannelRestored)

\* ==================================================================
\* redis_utils.py: RedisManager, and the Redis server it talks to
\* ==================================================================

\* The server holds the key and its time to live has not run out.
Live(e) == e.set /\ now < e.exp

\* A method whose try block has no except branch.
Attempt_NoExcept(fails) ==
    IF ~mgr_client THEN "unbound" ELSE IF fails THEN "raise" ELSE "ok"

\* The three ways a method of RedisManager ends: the guard "if not
\* self.redis_client" returns, the try block raises and the except branch
\* returns, or the try block returns.
Attempt(fails) ==
    IF ~mgr_client THEN "unbound" ELSE IF fails THEN "except" ELSE "ok"

\* The call is over: what it was and what the caller got.
Returned(op, caller, key, mode, out) ==
    [op |-> op, caller |-> caller, key |-> key, mode |-> mode, out |-> out,
     raised |-> mode = "raise", tick |-> 1 - call.tick]

\* The time to live in minutes instead of hours.
ExpirySeconds_Minutes(expiry_hours) == expiry_hours * 60

\* expiry_seconds = expiry_hours * 3600 (37, 108).
ExpirySeconds(expiry_hours) == expiry_hours * SecondsPerHour

\* connect (13-22): from_url binds the client or raises; the ping may fail
\* and the client stays bound.
Connect ==
    /\ \E bound \in BOOLEAN, pings \in BOOLEAN :
         /\ mgr_client' = (mgr_client \/ bound)
         /\ call' = Returned("connect", "a", <<"none", "none">>,
                            IF bound /\ pings THEN "ok" ELSE "except",
                            PyBool(bound /\ pings))
    /\ UNCHANGED <<svcVars, queue, nmsg, consVars, kv, ctr, now, wrote, incrs>>

\* setex(key, expiry_seconds, value) (39, 110): the server stores the value
\* with its expiry time; it refuses a time to live that is not positive.
SetEx(key, data, expiry_hours, mode) ==
    /\ kv' = IF mode = "ok"
             THEN [kv EXCEPT ![key] = [set |-> TRUE, val |-> json_dumps(data),
                                       exp |-> now + ExpirySeconds(expiry_hours)]]
             ELSE kv
    /\ wrote' = IF mode = "ok"
                THEN [wrote EXCEPT ![key] = [some |-> TRUE, val |-> data, at |-> now,
                                             hours |-> expiry_hours]]
                ELSE wrote

\* get(key), then "if cached_data: return json.loads(cached_data)" and
\* "return None" (53-57, 124-128).
Fetch(key) == IF Live(kv[key]) THEN PyDict(json_loads(kv[key].val)) ELSE PyNone

\* set_item_cache (29-44)
SetItemCache(item_id, item_data, expiry_hours) ==
    /\ \E fails \in BOOLEAN :
         LET key == ItemKey(item_id)
             mode == Attempt(fails \/ ExpirySeconds(expiry_hours) <= 0) IN
         /\ SetEx(key, item_data, expiry_hours, mode)
         /\ call' = Returned("set_item_cache", "a", key, mode, PyBool(mode = "ok"))
    /\ UNCHANGED <<svcVars, queue, nmsg, consVars, mgr_client, ctr, now, incrs>>

\* get_item_cache (46-60)
GetItemCache(item_id) ==
    /\ \E fails \in BOOLEAN :
         LET key == ItemKey(item_id)
             mode == Attempt(fails) IN
         call' = Returned("get_item_cache", "a", key, mode,
                         IF mode = "ok" THEN Fetch(key) ELSE PyNone)
    /\ UNCHANGED <<svcVars, queue, nmsg, consVars, mgr_client, kv, ctr, now, wrote, incrs>>

\* A delete that always answers that it removed the key.
Removed_Always(key) == 1

\* delete(key): the server removes the key and answers how many keys it
\* removed.
Del(key, mode) ==
    /\ kv' = IF mode = "ok" THEN [kv EXCEPT ![key] = Absent] ELSE kv
    /\ wrote' = IF mode = "ok" THEN [wrote EXCEPT ![key] = NotWritten] ELSE wrote
Removed(key) == IF Live(kv[key]) THEN 1 ELSE 0

\* delete_item_cache (62-73): bool(result)
DeleteItemCache(item_id) ==
    /\ \E fails \in BOOLEAN :
         LET key == ItemKey(item_id)
             mode == Attempt(fails) IN
         /\ Del(key, mode)
         /\ call' = Returned("delete_item_cache", "a", key, mode,
                            IF mode = "ok" THEN PyBool(Removed(key) # 0) ELSE PyBool(FALSE))
    /\ UNCHANGED <<svcVars, queue, nmsg, consVars, mgr_client, ctr, now, incrs>>

\* int(result) of the bytes the server holds for a counter.
CounterRange == (0 - 5 * MaxIncrs)..(5 * MaxIncrs)
IntOf(text) == CHOOSE n \in CounterRange : ToString(n) = text

\* An increment that ignores the amount.
IncrBy_One(cur, value) == cur + 1

\* incr(key, value): INCRBY adds the amount to the integer the key holds, 0
\* when there is no such key, and answers with the new value.
IncrBy(cur, value) == cur + value

\* set_counter (75-86)
SetCounter(caller, counter_name, value) ==
    /\ incrs.n < MaxIncrs
    /\ \E fails \in BOOLEAN :
         LET mode == Attempt(fails)
             cur == IF ctr[counter_name] = "" THEN 0 ELSE IntOf(ctr[counter_name])
             result == IncrBy(cur, value) IN
         /\ ctr' = IF mode = "ok" THEN [ctr EXCEPT ![counter_name] = ToString(result)] ELSE ctr
         /\ incrs' = IF mode = "ok" THEN [n |-> incrs.n + 1, sum |-> incrs.sum + value]
                                    ELSE incrs
         /\ call' = Returned("set_counter", caller, CounterKey(counter_name), mode,
                            IF mode = "ok" THEN PyInt(result) ELSE PyNone)
    /\ UNCHANGED <<svcVars, queue, nmsg, consVars, mgr_client, kv, now, wrote>>

\* get_counter (88-99): int(result) if result else 0
GetCounter(caller, counter_name) ==
    /\ \E fails \in BOOLEAN :
         LET mode == Attempt(fails)
             result == ctr[counter_name] IN
         call' = Returned("get_counter", caller, CounterKey(counter_name), mode,
                         IF mode = "ok"
                         THEN IF result # "" THEN PyInt(IntOf(result)) ELSE PyInt(0)
                         ELSE PyNone)
    /\ UNCHANGED <<svcVars, queue, nmsg, consVars, mgr_client, kv, ctr, now, wrote, incrs>>

\* set_session (100-114)
SetSession(session_id, session_data, expiry_hours) ==
    /\ \E fails \in BOOLEAN :
         LET key == SessionKey(session_id)
             mode == Attempt(fails \/ ExpirySeconds(expiry_hours) <= 0) IN
         /\ SetEx(key, session_data, expiry_hours, mode)
         /\ call' = Returned("set_session", "a", key, mode, PyBool(mode = "ok"))
    /\ UNCHANGED <<svcVars, queue, nmsg, consVars, mgr_client, ctr, now, incrs>>

\* get_session (116-130)
GetSession(session_id) ==
    /\ \E fails \in BOOLEAN :
         LET key == SessionKey(session_id)
             mode == Attempt(fails) IN
         call' = Returned("get_session", "a", key, mode,
                         IF mode = "ok" THEN Fetch(key) ELSE PyNone)
    /\ UNCHANGED <<svcVars, queue, nmsg, consVars, mgr_client, kv, ctr, now, wrote, incrs>>

\* get_all_keys (132-143): the keys the server holds, or []
GetAllKeys ==
    /\ \E fails \in BOOLEAN :
         LET mode == Attempt(fails)
             keys == {k \in Keys : Live(kv[k])} \cup
                     {CounterKey(c) : c \in {n \in CounterNames : ctr[n] # ""}} IN
         call' = Returned("get_all_keys", "a", <<"none", "none">>, mode,
                         IF mode = "ok" THEN PyList(keys) ELSE PyList({}))
    /\ UNCHANGED <<svcVars, queue, nmsg, consVars, mgr_client, kv, ctr, now, wrote, incrs>>

\* get_redis_info (145-161): a summary of the server's INFO, or None
GetRedisInfo ==
    /\ \E fails \in BOOLEAN :
         LET mode == Attempt(fails) IN
         call' = Returned("get_redis_info", "a", <<"none", "none">>, mode,
                         IF mode = "ok" THEN [t |-> "info", v |-> 0] ELSE PyNone)
    /\ UNCHANGED <<svcVars, queue, nmsg, consVars, mgr_client, kv, ctr, now, wrote, incrs>>

\* main.py delete_cached_item (279-288): 503 without a client, 500 when the
\* delete raises, else {"deleted": bool(result)}.
DeleteCachedItem(item_id) ==
    /\ phase = "serving"
    /\ \E fails \in BOOLEAN :
         LET key == ItemKey(item_id)
             mode == IF ~redis_client THEN "503" ELSE IF fails THEN "500" ELSE "ok" IN
         /\ Del(key, mode)
         /\ call' = Returned("delete_cached_item", "a", key, mode,
                            IF mode = "ok" THEN PyBool(Removed(key) # 0)
                                           ELSE [t |-> "HTTPException", v |-> 0])
    /\ UNCHANGED <<svcVars, queue, nmsg, consVars, mgr_client, ctr, now, incrs>>

\* An hour passes on the server; it drops the keys whose time has run out.
Tick ==
    /\ now < MaxTicks * SecondsPerHour
    /\ now' = now + SecondsPerHour
    /\ kv' = [k \in Keys |-> IF kv[k].set /\ now' >= kv[k].exp THEN Absent ELSE kv[k]]
    /\ UNCHANGED <<svcVars, queue, nmsg, consVars, mgr_client, ctr, call, wrote, incrs>>

\* The service after a startup that found no broker, with its cache client
\* bound or not, and a RedisManager that is not connected yet.
CacheInit ==
    /\ rabbitmq_connection = None
    /\ rabbitmq_channel = None
    /\ redis_client \in BOOLEAN
    /\ connOpen = {}
    /\ nconn = 0
    /\ phase = "serving"
    /\ task = [t \in Tasks |-> Idle]
    /\ nreq = 0
    /\ nitems = 0
    /\ cached = {}
    /\ queue = <<>>
    /\ nmsg = 0
    /\ cpc = "start"
    /\ prefetch = 0
    /\ chanOpen = FALSE
    /\ inflight = <<>>
    /\ acked = {}
    /\ failed = {}
    /\ last = [msg |-> [id |-> 0, body |-> Serialize(NoEvent), ev |-> NoEvent],
               seen |-> Loads(Serialize(NoEvent)),
               handled |-> FALSE, tick |-> 0, acks |-> 0, nacks |-> 0,
               outcome |-> "none", escaped |-> FALSE]
    /\ nlost = 0
    /\ mgr_client = FALSE
    /\ kv = [k \in Keys |-> Absent]
    /\ ctr = [c \in CounterNames |-> ""]
    /\ now = 0
    /\ call = NoCall
    /\ wrote = [k \in Keys |-> NotWritten]
    /\ incrs = [n |-> 0, sum |-> 0]

\* Every operation of RedisManager, at one time of the server's clock.
CacheNext ==
    \/ Connect
    \/ \E i \in ItemIds, d \in ItemData, h \in Hours : SetItemCache(i, d, h)
    \/ \E i \in ItemIds : GetItemCache(i)
    \/ \E i \in ItemIds : DeleteItemCache(i)
    \/ \E c \in Callers, n \in CounterNames, a \in Amounts : SetCounter(c, n, a)
    \/ \E c \in Callers, n \in CounterNames : GetCounter(c, n)
    \/ \E i \in SessionIds, d \in SessionData, h \in Hours : SetSession(i, d, h)
    \/ \E i \in SessionIds : GetSession(i)
    \/ GetAllKeys
    \/ GetRedisInfo

CacheSpec == CacheInit /\ [][CacheNext]_vars

\* The cached items and sessions while time passes.
EntryNext ==
    \/ Connect
    \/ \E i \in ItemIds, d \in ItemData, h \in Hours : SetItemCache(i, d, h)
    \/ \E i \in ItemIds : GetItemCache(i)
    \/ \E i \in ItemIds : DeleteItemCache(i)
    \/ \E i \in SessionIds, d \in SessionData, h \in Hours : SetSession(i, d, h)
    \/ \E i \in SessionIds : GetSession(i)
    \/ \E i \in ItemIds : DeleteCachedItem(i)
    \/ Tick

EntrySpec == CacheInit /\ [][EntryNext]_vars

\* The counters and their callers.
CounterNext ==
    \/ Connect
    \/ \E c \in Callers, n \in CounterNames, a \in Amounts : SetCounter(c, n, a)
    \/ \E c \in Callers, n \in CounterNames : GetCounter(c, n)

CounterSpec == CacheInit /\ [][CounterNext]_vars

\* ==================================================================
\* Properties of the service (main.py), checked under Spec
\* ==================================================================

\* connect_rabbitmq() returns to its caller in this step.
ConnectReturns(t) == InConnect(t) /\ task'[t].pc \notin ConnectPcs

\* A handler makes its publish / queue call on the cached channel in this step.
ChannelPcs == {"publish", "getqueue", "cpublish", "h_getqueue"}
TakesChannel(t) == task[t].pc \notin ChannelPcs /\ task'[t].pc \in ChannelPcs

\* The broker executes a publish or queue operation of handler t in this step.
PublishPcs == {"publish", "getqueue", "cpublish"}
ExecutesOnChannel(t) == task[t].pc \in PublishPcs /\ task'[t].pc \notin PublishPcs

\* C1: connect() makes at most max_retries attempts; when every attempt has
\* failed it returns an error and the connection state is not Connected;
\* when an attempt succeeds it returns success at once and the state is
\* Connected.
C1_ConnectContract ==
    [][\A t \in Tasks :
         ConnectReturns(t) =>
           /\ task[t].attempt < max_retries
           /\ task'[t].cres = "fail" =>
                (task[t].attempt = max_retries - 1 /\ ~ConnectedState')
           /\ task'[t].cres = "ok" => ConnectedState']_vars

\* C2: callers that ask for a connection concurrently share one reconnect
\* sequence: no two handlers are inside connect_rabbitmq() at the same time.
C2_SingleReconnect ==
    \A t, u \in Tasks : InConnect(t) /\ InConnect(u) => t = u

\* C5: a publish request that gets no channel handle ends in the Unavailable
\* error and publishes nothing; it is never reported as a success nor
\* skipped without an error.
NoHandle(t) ==
    \/ task[t].kind = "notify" /\ task[t].cres = "fail"
    \/ task[t].kind = "create" /\ task[t].skipped
C5_PublishUnavailable ==
    \A t \in Tasks :
      task[t].pc = "done" /\ NoHandle(t) => task[t].resp = "503 RabbitMQ not available"

\* C6: a handler takes the cached channel for a publish or queue operation
\* only while the connection state is Connected; outside Connected it first
\* reconnects.
C6_ChannelOnlyWhenConnected ==
    [][\A t \in Tasks : TakesChannel(t) => ConnectedState']_vars

\* C7: no publish or queue operation is executed on the shared channel
\* while another handler's connect() is in progress.
C7_NoPublishDuringReconnect ==
    [][\A t \in Tasks :
         ExecutesOnChannel(t) => ~ \E u \in Tasks \ {t} : InConnect(u)]_vars

\* C10: a health probe that finds the broker not connected calls connect()
\* exactly once and reports "reconnected" when it succeeded and
\* "disconnected" otherwise.
C10_ProbeReconnectsOnce ==
    \A t \in Tasks :
      task[t].kind = "health" /\ task[t].pc = "done" /\ task[t].found = "notconnected" =>
        /\ task[t].ncalls = 1
        /\ \/ task[t].cres = "ok" /\ task[t].rabbit = "reconnected"
           \/ task[t].cres = "fail" /\ task[t].rabbit = "disconnected"

\* ==================================================================
\* Properties of the consumer (consumer.py), checked under ConsumerSpec
\* ==================================================================

Dispatched == last' # last
InQueue(id) == \E k \in 1..Len(queue) : queue[k].id = id
Delivered(id) == \E k \in 1..Len(inflight) : inflight[k].msg.id = id /\ inflight[k].live

\* C3: every dispatch issues exactly one acknowledgment: an ack and no nack
\* when the handler succeeded, a nack (requeue) and no ack when it failed.
C3_ExactlyOneAck ==
    last.outcome # "none" =>
      IF last.handled THEN last.acks = 1 /\ last.nacks = 0
                      ELSE last.acks = 0 /\ last.nacks = 1

\* C4: a message whose dispatch ended in Failure is back on the queue with
\* the same payload and, while the consumer stays subscribed, is delivered
\* again; a message that was acked is on the queue no more and is never
\* delivered again.
C4_Redelivery ==
    /\ [][Dispatched /\ last'.outcome = "Failure" =>
            \E k \in 1..Len(queue') : queue'[k] = last'.msg]_vars
    /\ [](\A id \in acked : ~InQueue(id) /\ ~Delivered(id))
    /\ \A id \in 1..MaxMsgs :
         (id \in failed /\ InQueue(id)) ~> (Delivered(id) \/ cpc = "stopped")

\* a message delivered again after a dispatch of it failed
C4_Witness ==
    \E k \in 1..Len(inflight) : inflight[k].live /\ inflight[k].msg.id \in failed

\* C8: the consumer subscribes with the prefetch bound set, and the
\* deliveries it holds unsettled never exceed the bound.
C8_PrefetchBound ==
    /\ cpc = "consuming" => prefetch = PrefetchCount
    /\ Len(inflight) <= PrefetchCount

\* the bound is what holds a ready message back
C8_Witness ==
    /\ cpc = "consuming" /\ chanOpen
    /\ Len(inflight) = PrefetchCount
    /\ queue # <<>>

\* C9: no failure of a dispatch leaves process_message, and the consumer
\* stays subscribed after it.
C9_FailureContained ==
    [][Dispatched => ~last'.escaped /\ cpc' = "consuming"]_vars

\* ==================================================================
\* Properties of the record-creation path and the connections held
\* (main.py), checked under Spec
\* ==================================================================

CreateFailed == "500 Failed to create item"

\* C11: create_item publishes only once the record is inserted, and a
\* publish that fails after the insert does not turn the request into an
\* error.
C11_PublishFailureNonFatal ==
    [][\A t \in Tasks :
         /\ task'[t].pc = "cpublish" => task'[t].item # 0
         /\ task[t].pc = "cpublish" => task'[t].resp # CreateFailed]_vars

\* C12: whatever the state of the cache, a create_item whose insert
\* succeeded is not failed by the cache write.
C12_CacheNotRequired ==
    [][\A t \in Tasks :
         task[t].kind = "create" /\ task[t].item # 0 /\ task[t].pc = "setex" =>
           task'[t].resp # CreateFailed]_vars

\* C19: the service holds at most one open broker connection.
C19_OneOpenConnection == Cardinality(connOpen) <= 1

\* ==================================================================
\* Properties of the retry delays and of the health report (main.py),
\* checked under SeqSpec
\* ==================================================================

ProbeDone(t) == task[t].kind = "health" /\ task[t].pc = "done"
BrokerUp(t) == task[t].rabbit \in {"connected", "reconnected"}
OthersUp(t) == task[t].mongo = "connected" /\ task[t].redis = "connected"

\* C17: connect_rabbitmq() sleeps only between attempts: a call that succeeds
\* on attempt k has slept k-1 times and a call whose attempts all fail has
\* slept max_retries-1 times. While the broker is disconnected the health
\* report is degraded: a call that returns False leaves a state that
\* health_check does not report as connected, and a probe that finds the
\* broker disconnected reports it degraded unless its own connect succeeds;
\* after a successful attempt the broker does not degrade the report.
C17_DelaysBetweenAttempts ==
    /\ [][\A t \in Tasks :
            ConnectReturns(t) =>
              /\ task'[t].cres = "ok" => task'[t].delays = task[t].attempt
              /\ task'[t].cres = "fail" =>
                   /\ task[t].attempt = max_retries - 1
                   /\ task'[t].delays = max_retries - 1
                   /\ ~ConnectedState']_vars
    /\ [](\A t \in Tasks :
            ProbeDone(t) =>
              /\ task[t].rabbit = "disconnected" =>
                   task[t].cres = "fail" /\ task[t].status = "degraded"
              /\ task[t].found = "notconnected" /\ task[t].cres # "ok" =>
                   ~BrokerUp(t) /\ task[t].status = "degraded"
              /\ task[t].found = "notconnected" /\ task[t].cres = "ok" =>
                   /\ task[t].rabbit = "reconnected"
                   /\ task[t].status = "healthy" <=> OthersUp(t))

\* C20: the overall status of a health report is "healthy" exactly when the
\* record store, the cache and the broker were each reported connected (or
\* reconnected); any other report of a service makes it "degraded".
C20_HealthyIffAllUp ==
    \A t \in Tasks :
      ProbeDone(t) =>
        /\ task[t].status \in {"healthy", "degraded"}
        /\ task[t].status = "healthy" <=> (OthersUp(t) /\ BrokerUp(t))

\* A report that is degraded by the broker alone: the channel is missing.
C20_Witness ==
    \E t \in Tasks :
      /\ ProbeDone(t)
      /\ OthersUp(t)
      /\ task[t].rabbit = "channel not available"
      /\ task[t].status = "degraded"

\* ==================================================================
\* The notification from the service to the consumer (main.py,
\* consumer.py), checked under ConsumerSpec
\* ==================================================================

Unaltered(m) == m.ev.sent => m.body = Serialize(m.ev)

Called == call'.tick # call.tick

ManagerOps ==
    {"set_item_cache", "get_item_cache", "delete_item_cache", "set_counter",
     "get_counter", "set_session", "get_session", "get_all_keys", "get_redis_info"}
GetOps == {"get_item_cache", "get_session"}
DeleteOps == {"delete_item_cache", "delete_cached_item"}

\* The key was written, and neither deleted nor expired since.
Present(k) ==
    wrote[k].some /\ now < wrote[k].at + wrote[k].hours * SecondsPerHour

\* The dict with every value that is not a str replaced by its str().
Stringified(d) == [name |-> PyStr(StrOf(d.name)), created_at |-> PyStr(StrOf(d.created_at))]

\* C13: an operation of RedisManager that is called without a client, or
\* whose Redis call fails, returns False, None or [] (as the operation has
\* it), raises nothing and leaves the keys and counters of the server as
\* they were.
C13_DegradesGracefully ==
    [][Called /\ call'.op \in ManagerOps /\ call'.mode # "ok" =>
         /\ ~call'.raised
         /\ call'.out =
              CASE call'.op \in {"set_item_cache", "delete_item_cache", "set_session"} ->
                     PyBool(FALSE)
                [] call'.op = "get_all_keys" -> PyList({})
                [] OTHER -> PyNone
         /\ UNCHANGED <<kv, ctr>>]_vars

\* A delete failed on a key the server holds, and the key is still there.
C13_Witness ==
    /\ call.op = "delete_item_cache"
    /\ call.mode = "except"
    /\ Live(kv[call.key])

\* C14 as stated: a get of a key that was set and whose time to live has not
\* run out returns the value that was set last, and a get of any other key
\* returns None.
C14_SetThenGet ==
    [][Called /\ call'.op \in GetOps /\ call'.mode = "ok" =>
         call'.out = IF Present(call'.key) THEN PyDict(wrote[call'.key].val) ELSE PyNone]_vars

\* C14, amended: the get returns the value that was set last as json.dumps
\* (default=str) and json.loads render it: the value itself when it holds
\* JSON types only, and with the str() of every other value otherwise.
C14_SetThenGetRendered ==
    [][Called /\ call'.op \in GetOps /\ call'.mode = "ok" =>
         call'.out = IF Present(call'.key) THEN PyDict(Stringified(wrote[call'.key].val))
                                           ELSE PyNone]_vars

\* An hour after it was set with a datetime in it, an item is read back.
C14_Witness ==
    /\ call.op = "get_item_cache"
    /\ call.mode = "ok"
    /\ call.out.t = "dict"
    /\ wrote[call.key].val.created_at.t = "datetime"
    /\ now > wrote[call.key].at

\* C15: a counter reads as the sum of the increments applied to it, 0 when
\* there were none, and every increment returns the sum up to and including
\* itself, whichever caller made it.
C15_CounterSum ==
    [][Called /\ call'.mode = "ok" =>
         /\ call'.op = "set_counter" =>
              /\ incrs'.n = incrs.n + 1
              /\ call'.out = PyInt(incrs'.sum)
         /\ call'.op = "get_counter" => call'.out = PyInt(incrs.sum)]_vars

\* After an increment by 1 and one by 5 the second caller reads 6.
C15_Witness ==
    /\ call.op = "get_counter"
    /\ call.caller = "b"
    /\ incrs.n = 2
    /\ call.out = PyInt(6)

\* C18: a delete on a connected store returns true exactly when the key was
\* present before the call, and after it the key is absent.
C18_DeleteReportsPresence ==
    [][Called /\ call'.op \in DeleteOps /\ call'.mode = "ok" =>
         /\ call'.out = PyBool(Present(call'.key))
         /\ ~(kv'[call'.key].set /\ now' < kv'[call'.key].exp)
         /\ ~wrote'[call'.key].some]_vars

\* A delete of a key that had expired returned false.
C18_Witness ==
    /\ call.op \in DeleteOps
    /\ call.mode = "ok"
    /\ call.out = PyBool(FALSE)
    /\ now > 0

\* ==================================================================
\* The cached handles of the broker (main.py 41-43, 77-103), checked
\* under SeqSpec
\* ==================================================================

\* C21: whenever rabbitmq_channel is set, it is a channel of the connection
\* rabbitmq_connection refers to, also after attempts of connect_rabbitmq()
\* that failed part way and after calls that used up their retries.
C21_ChannelOfCachedConnection ==
    rabbitmq_channel # None => rabbitmq_channel = rabbitmq_connection

====
